---- MODULE Spec2Model ----
(***************************************************************************)
(* The TLS security profile propagation scenario of the end-to-end suite   *)
(* (testTLSSecurityProfilePropagation) and the five poll sessions it runs  *)
(* through wait.PollUntilContextTimeout.                                   *)
(*                                                                         *)
(* The model follows the Ginkgo variant of the function; the testing.TB     *)
(* variant takes the same steps with require.NoError and t.Cleanup.        *)
(*                                                                         *)
(* Time is counted in seconds from the start of the current poll session;  *)
(* a check takes no time, and the context the test runner hands in is not  *)
(* cancelled, so that a session ends by its own deadline only.             *)
(* The cluster is an external collaborator: what a Get returns during a    *)
(* poll is chosen freely at every check; the APIServer resource, which the *)
(* scenario writes, is kept as state.  One thing more is kept: from the    *)
(* Modern update until the operator publishes a status again, the          *)
(* ClusterOperator status is the one that was there at the update.  This   *)
(* is followed until the reconciliation poll returns; the polls after it   *)
(* take any status.                                                        *)
(* The runner of the serial suite is not part of the program; of it only   *)
(* the spec it has started is kept, and TimedSpec follows one run of the   *)
(* scenario that it has started under the TestTimeout of the suite.        *)
(***************************************************************************)
EXTENDS Integers, Sequences, FiniteSets, TLC

VARIABLES
    pc,                 \* position of the scenario in testTLSSecurityProfilePropagation
    verdict,            \* "running", "passed" or "failed"
    failure,            \* why the scenario failed: "none", "setup" or "timeout"
    apiProfile,         \* cluster: APIServer.Spec.TLSSecurityProfile
    apiVersion,         \* cluster: resourceVersion of the APIServer resource
    apiServer,          \* the scenario's local copy of the APIServer resource
    originalTLSProfile, \* the profile saved for the cleanup
    cleanupRegistered,  \* DeferCleanup has been called
    st,                 \* state of every poll session
    err,                \* error returned by every poll session
    elapsed,            \* seconds since the current poll session started
    checks,             \* predicate invocations of the current poll session
    obs,                \* what the last Get of the current poll session returned
    published,          \* cluster: the ClusterOperator status at the Modern update,
                        \* while the operator has not published another one
    sawDegraded,        \* the current poll session logged "operator is degraded"
    suite               \* test runner: the specs of the serial suite it has
                        \* started and those that finished

vars == <<pc, verdict, failure, apiProfile, apiVersion, apiServer,
          originalTLSProfile, cleanupRegistered, st, err, elapsed, checks, obs,
          published, sawDegraded, suite>>

-----------------------------------------------------------------------------
(* Bounds of the model *)

\* longest condition list of a ClusterOperator status that is enumerated
MaxConds == 3

\* longest cipherSuites list of an observed configuration that is enumerated
MaxCiphers == 4

-----------------------------------------------------------------------------
(* The five poll sessions and their parameters *)

MainPolls == {"progressing", "reconcile", "observed"}

CleanupPolls == {"cleanupReconcile", "cleanupVerify"}

Polls == MainPolls \cup CleanupPolls

\* polls whose predicate reads the ClusterOperator status
CoPolls == {"progressing", "reconcile", "cleanupReconcile"}

\* polls whose predicate reads the OpenShiftControllerManager observed config
CfgPolls == {"observed", "cleanupVerify"}

\* second argument of PollUntilContextTimeout, in seconds
Interval(p) ==
    CASE p = "progressing"      -> 5
      [] p = "reconcile"        -> 10
      [] p = "observed"         -> 5
      [] p = "cleanupReconcile" -> 10
      [] p = "cleanupVerify"    -> 5

\* third argument of PollUntilContextTimeout, in seconds
Timeout(p) ==
    CASE p = "progressing"      -> 5 * 60
      [] p = "reconcile"        -> 15 * 60
      [] p = "observed"         -> 2 * 60
      [] p = "cleanupReconcile" -> 10 * 60
      [] p = "cleanupVerify"    -> 2 * 60

\* mutant: the polls wait one interval before their first check
ImmediateFalse(p) == FALSE

\* fourth argument of PollUntilContextTimeout
Immediate(p) == TRUE

-----------------------------------------------------------------------------
(* Observations: ClusterOperator status *)

CondTypes == {"Available", "Progressing", "Degraded"}

CondStatuses == {"True", "False", "Unknown"}

Conditions == [type : CondTypes, status : CondStatuses]

SeqsUpTo(S, n) == UNION {[1..k -> S] : k \in 0..n}

\* a failed Get carries no object
CoFetchError == [kind |-> "co", fetchErr |-> TRUE, conditions |-> <<>>]

\* every ClusterOperator observation with at most MaxConds conditions
AllCoObservations ==
    {CoFetchError} \cup
    {[kind |-> "co", fetchErr |-> FALSE, conditions |-> cs] :
        cs \in SeqsUpTo(Conditions, MaxConds)}

\* the status lists a running operator publishes: one entry per type at most,
\* in the order Available, Progressing, Degraded, each True or False
CondOrder == <<"Available", "Progressing", "Degraded">>

RECURSIVE CondLists(_)
CondLists(i) ==
    IF i > Len(CondOrder) THEN {<<>>}
    ELSE LET rest == CondLists(i + 1)
         IN  rest \cup
             {<<[type |-> CondOrder[i], status |-> s]>> \o r :
                 s \in {"True", "False"}, r \in rest}

CoObservations ==
    {CoFetchError} \cup
    {[kind |-> "co", fetchErr |-> FALSE, conditions |-> cs] : cs \in CondLists(1)}

-----------------------------------------------------------------------------
(* Observations: OpenShiftControllerManager observed configuration *)

expectedCiphers ==
    <<"TLS_AES_128_GCM_SHA256", "TLS_AES_256_GCM_SHA384",
      "TLS_CHACHA20_POLY1305_SHA256">>

\* the expected suites and one TLS 1.2 suite that the Modern profile does not list
CipherOrder == expectedCiphers \o <<"TLS_ECDHE_RSA_WITH_AES_128_GCM_SHA256">>

CipherNames == {CipherOrder[i] : i \in DOMAIN CipherOrder}

TLSVersions == {"", "VersionTLS11", "VersionTLS12", "VersionTLS13"}

\* A JSON value under servingInfo: absent, of another type than the accessor
\* expects, or of the expected type with value v.
AbsentString == [k |-> "absent", v |-> ""]

OtherString == [k |-> "other", v |-> ""]

AbsentSlice == [k |-> "absent", v |-> <<>>]

OtherSlice == [k |-> "other", v |-> <<>>]

MinTLSValues ==
    {AbsentString, OtherString} \cup {[k |-> "string", v |-> s] : s \in TLSVersions}

CipherValues(lists) ==
    {AbsentSlice, OtherSlice} \cup {[k |-> "slice", v |-> l] : l \in lists}

\* An observed configuration.
\*   fetchErr     the Get failed
\*   raw          "invalid": Raw is not JSON (empty included); "object": a JSON object
\*   names        for each of "minTLSVersion" and "cipherSuites": the quoted name
\*                occurs in the text of Raw.  The text and the decoded value are
\*                apart: a name can occur outside servingInfo, and a key of
\*                servingInfo can be written with a JSON escape
\*   servingInfo  "absent", "null", "other" (present, neither object nor null)
\*                or "map"
CfgObs(fe, raw, names, si, tls, cs) ==
    [kind |-> "cfg", fetchErr |-> fe, raw |-> raw, names |-> names,
     servingInfo |-> si, minTLSVersion |-> tls, cipherSuites |-> cs]

\* which of the two quoted names the text of Raw contains
AllNames == [minTLSVersion : BOOLEAN, cipherSuites : BOOLEAN]

CfgFetchError ==
    CfgObs(TRUE, "invalid", [minTLSVersion |-> FALSE, cipherSuites |-> FALSE],
           "absent", AbsentString, AbsentSlice)

\* every Raw the closures can take, with cipher lists out of `lists`: the text
\* holds each quoted name or not, whatever it decodes to
CfgObservationsOver(lists) ==
    {CfgFetchError}
    \cup {CfgObs(FALSE, "invalid", n, "absent", AbsentString, AbsentSlice) :
            n \in AllNames}
    \cup {CfgObs(FALSE, "object", nsi[1], nsi[2], AbsentString, AbsentSlice) :
            nsi \in AllNames \X {"absent", "null", "other"}}
    \cup {CfgObs(FALSE, "object", ntc[1], "map", ntc[2], ntc[3]) :
            ntc \in AllNames \X MinTLSValues \X CipherValues(lists)}

\* every cipher list of at most MaxCiphers names
AllCipherLists == SeqsUpTo(CipherNames, MaxCiphers)

\* the cipher lists an operator goes through while it writes the profile: none
\* of the expected suites, some of them, all of them, and one suite more
CipherPrefixes == {SubSeq(CipherOrder, 1, n) : n \in 0..Len(CipherOrder)}

AllCfgObservations == CfgObservationsOver(AllCipherLists)

\* what a Get of the scenario returns: the same texts, over the lists of
\* CipherPrefixes
CfgObservations == CfgObservationsOver(CipherPrefixes)

NoObs == [kind |-> "none"]

\* what a Get issued by poll p can return in the scenario
Observations(p) == IF p \in CoPolls THEN CoObservations ELSE CfgObservations

\* what a Get issued by poll p can return, every enumerated shape
AllObservations(p) == IF p \in CoPolls THEN AllCoObservations ELSE AllCfgObservations

-----------------------------------------------------------------------------
(* Accessors of the observed configuration *)

\* json.Unmarshal(cfg.Spec.ObservedConfig.Raw, &observedConfig) succeeds
UnmarshalOk(o) == o.raw = "object"

\* strings.Contains(observed, "\"<name>\"") on the text of Raw
ContainsKey(o, name) == o.names[name]

\* unstructured.NestedMap(observedConfig, "servingInfo"): a value that is no
\* object, null included, is an error
NestedMap(o) ==
    CASE o.servingInfo = "absent" -> [found |-> FALSE, err |-> FALSE]
      [] o.servingInfo = "null"   -> [found |-> FALSE, err |-> TRUE]
      [] o.servingInfo = "other"  -> [found |-> FALSE, err |-> TRUE]
      [] o.servingInfo = "map"    -> [found |-> TRUE, err |-> FALSE]

\* unstructured.NestedString and unstructured.NestedStringSlice on a field of
\* servingInfo: a parent or a value of the wrong type is an error, a missing
\* parent or value is "not found", a null parent is "not found" as well, and
\* all leave the zero value
NestedValue(o, value, zero) ==
    CASE o.servingInfo = "absent" -> [val |-> zero, found |-> FALSE, err |-> FALSE]
      [] o.servingInfo = "null"   -> [val |-> zero, found |-> FALSE, err |-> FALSE]
      [] o.servingInfo = "other"  -> [val |-> zero, found |-> FALSE, err |-> TRUE]
      [] o.servingInfo = "map" ->
            CASE value.k = "absent" -> [val |-> zero, found |-> FALSE, err |-> FALSE]
              [] value.k = "other"  -> [val |-> zero, found |-> FALSE, err |-> TRUE]
              [] OTHER              -> [val |-> value.v, found |-> TRUE, err |-> FALSE]

NestedString(o) == NestedValue(o, o.minTLSVersion, "")

NestedStringSlice(o) == NestedValue(o, o.cipherSuites, <<>>)

-----------------------------------------------------------------------------
(* The predicates handed to PollUntilContextTimeout: each returns (bool, error) *)

Result(ok, e) == [ok |-> ok, err |-> e]

\* return false, nil after a failed Get
FetchErrorResult == Result(FALSE, "nil")

HasCondition(o, type, status) ==
    \E i \in DOMAIN o.conditions :
        o.conditions[i].type = type /\ o.conditions[i].status = status

\* mutant: the condition returns the Get error to the poll loop
ProgressingPredicatePropagates(o) ==
    IF o.fetchErr THEN Result(FALSE, "FetchError")
    ELSE Result(HasCondition(o, "Progressing", "True"), "nil")

\* mutant: a Progressing condition of any status counts as progressing
ProgressingPredicateAnyStatus(o) ==
    IF o.fetchErr THEN FetchErrorResult
    ELSE Result(\E s \in CondStatuses : HasCondition(o, "Progressing", s), "nil")

\* wait for the operator to start progressing
ProgressingPredicate(o) ==
    IF o.fetchErr THEN FetchErrorResult
    ELSE Result(HasCondition(o, "Progressing", "True"), "nil")

\* mutant: a degraded operator aborts the poll with an error
ReconcilePredicateAbortsOnDegraded(o) ==
    IF o.fetchErr THEN FetchErrorResult
    ELSE LET isAvailable   == HasCondition(o, "Available", "True")
             isProgressing == ~HasCondition(o, "Progressing", "False")
             isDegraded    == HasCondition(o, "Degraded", "True")
         IN  IF isDegraded THEN Result(FALSE, "Degraded")
             ELSE IF isAvailable /\ ~isProgressing THEN Result(TRUE, "nil")
             ELSE Result(FALSE, "nil")

\* mutant: the Degraded condition is not looked at
ReconcilePredicateIgnoresDegraded(o) ==
    IF o.fetchErr THEN FetchErrorResult
    ELSE LET isAvailable   == HasCondition(o, "Available", "True")
             isProgressing == ~HasCondition(o, "Progressing", "False")
         IN  IF isAvailable /\ ~isProgressing THEN Result(TRUE, "nil")
             ELSE Result(FALSE, "nil")

\* wait for the operator to finish the reconciliation
ReconcilePredicate(o) ==
    IF o.fetchErr THEN FetchErrorResult
    ELSE LET isAvailable   == HasCondition(o, "Available", "True")
             isProgressing == ~HasCondition(o, "Progressing", "False")
             isDegraded    == HasCondition(o, "Degraded", "True")
         IN  IF isDegraded THEN Result(FALSE, "nil")
             ELSE IF isAvailable /\ ~isProgressing THEN Result(TRUE, "nil")
             ELSE Result(FALSE, "nil")

\* cleanup: wait for the operator to reconcile the restoration
CleanupReconcilePredicate(o) ==
    IF o.fetchErr THEN FetchErrorResult
    ELSE LET isAvailable   == HasCondition(o, "Available", "True")
             isProgressing == ~HasCondition(o, "Progressing", "False")
         IN  IF isAvailable /\ ~isProgressing THEN Result(TRUE, "nil")
             ELSE Result(FALSE, "nil")

\* cipherSet: the set built from the cipherSuites slice
CipherSet(cipherSuites) == {cipherSuites[i] : i \in DOMAIN cipherSuites}

\* mutant: the observed list must be the expected ciphers and nothing else
AllExpectedExactly(cipherSuites) ==
    CipherSet(cipherSuites) = {expectedCiphers[i] : i \in DOMAIN expectedCiphers}

\* every expected cipher is in cipherSet
AllExpectedPresent(cipherSuites) ==
    \A i \in DOMAIN expectedCiphers : expectedCiphers[i] \in CipherSet(cipherSuites)

\* mutant: a blob that does not parse is returned to the poll loop as an error
ObservedPredicateFailsOnUnmarshal(o) ==
    IF o.fetchErr THEN FetchErrorResult
    ELSE LET hasTLSVersion   == ContainsKey(o, "minTLSVersion")
             hasCipherSuites == ContainsKey(o, "cipherSuites")
             servingInfo     == NestedMap(o)
             minTLSVersion   == NestedString(o)
             cipherSuites    == NestedStringSlice(o)
         IN  IF ~hasTLSVersion \/ ~hasCipherSuites THEN Result(FALSE, "nil")
             ELSE IF ~UnmarshalOk(o) THEN Result(FALSE, "UnmarshalError")
             ELSE IF servingInfo.err \/ ~servingInfo.found THEN Result(FALSE, "nil")
             ELSE IF minTLSVersion.err \/ ~minTLSVersion.found \/ minTLSVersion.val = ""
                  THEN Result(FALSE, "nil")
             ELSE IF minTLSVersion.val # "VersionTLS13" THEN Result(FALSE, "nil")
             ELSE IF cipherSuites.err \/ ~cipherSuites.found \/ Len(cipherSuites.val) = 0
                  THEN Result(FALSE, "nil")
             ELSE IF ~AllExpectedPresent(cipherSuites.val) THEN Result(FALSE, "nil")
             ELSE Result(TRUE, "nil")

\* verify that the Modern profile reached the observed config
ObservedPredicate(o) ==
    IF o.fetchErr THEN FetchErrorResult
    ELSE LET hasTLSVersion   == ContainsKey(o, "minTLSVersion")
             hasCipherSuites == ContainsKey(o, "cipherSuites")
             servingInfo     == NestedMap(o)
             minTLSVersion   == NestedString(o)
             cipherSuites    == NestedStringSlice(o)
         IN  IF ~hasTLSVersion \/ ~hasCipherSuites THEN Result(FALSE, "nil")
             ELSE IF ~UnmarshalOk(o) THEN Result(FALSE, "nil")
             ELSE IF servingInfo.err \/ ~servingInfo.found THEN Result(FALSE, "nil")
             ELSE IF minTLSVersion.err \/ ~minTLSVersion.found \/ minTLSVersion.val = ""
                  THEN Result(FALSE, "nil")
             ELSE IF minTLSVersion.val # "VersionTLS13" THEN Result(FALSE, "nil")
             ELSE IF cipherSuites.err \/ ~cipherSuites.found \/ Len(cipherSuites.val) = 0
                  THEN Result(FALSE, "nil")
             ELSE IF ~AllExpectedPresent(cipherSuites.val) THEN Result(FALSE, "nil")
             ELSE Result(TRUE, "nil")

\* mutant: the saved profile is not looked at; anything but VersionTLS13 is accepted
CleanupVerifyPredicateAnyOriginal(o, original) ==
    IF o.fetchErr THEN FetchErrorResult
    ELSE IF ~UnmarshalOk(o) THEN Result(FALSE, "nil")
    ELSE LET minTLSVersion == NestedString(o)
         IN  IF minTLSVersion.err THEN Result(FALSE, "nil")
             ELSE Result(~minTLSVersion.found \/ minTLSVersion.val # "VersionTLS13",
                         "nil")

\* cleanup: verify that the observed config left the Modern profile
CleanupVerifyPredicate(o, original) ==
    IF o.fetchErr THEN FetchErrorResult
    ELSE IF ~UnmarshalOk(o) THEN Result(FALSE, "nil")
    ELSE LET minTLSVersion == NestedString(o)
         IN  IF minTLSVersion.err THEN Result(FALSE, "nil")
             ELSE IF original = "nil"
                  THEN IF minTLSVersion.found /\ minTLSVersion.val = "VersionTLS12"
                       THEN Result(TRUE, "nil")
                       ELSE IF ~minTLSVersion.found \/ minTLSVersion.val = ""
                       THEN Result(TRUE, "nil")
                       ELSE Result(FALSE, "nil")
                  ELSE IF minTLSVersion.found /\ minTLSVersion.val # "VersionTLS13"
                       THEN Result(TRUE, "nil")
                       ELSE Result(FALSE, "nil")

\* the condition function of poll p, applied to what its Get returned
Predicate(p, o, original) ==
    CASE p = "progressing"      -> ProgressingPredicate(o)
      [] p = "reconcile"        -> ReconcilePredicate(o)
      [] p = "observed"         -> ObservedPredicate(o)
      [] p = "cleanupReconcile" -> CleanupReconcilePredicate(o)
      [] p = "cleanupVerify"    -> CleanupVerifyPredicate(o, original)

-----------------------------------------------------------------------------
(* The scenario's state *)

\* values of APIServer.Spec.TLSSecurityProfile: the nil pointer or a profile type
Profiles == {"nil", "Intermediate", "Modern"}

\* the profile of the cluster when the scenario starts
InitialProfiles == {"nil", "Intermediate"}

NoCopy == [profile |-> "nil", version |-> -1]

\* the serial suite before the runner started a spec
NoSpecs == [inFlight |-> {}, finished |-> {}]

\* a spec is the set of bracketed tags in its full name; this is the scenario
TLSSpec == {"sig-openshift-controller-manager", "Operator", "TLS", "Serial"}

SessionStates ==
    {"NotStarted", "Waiting", "Checking", "Converged", "TimedOut", "Errored"}

Terminal == {"Converged", "TimedOut", "Errored"}

Init ==
    /\ pc = "setup"
    /\ verdict = "running"
    /\ failure = "none"
    /\ apiProfile \in InitialProfiles
    /\ apiVersion = 0
    /\ apiServer = NoCopy
    /\ originalTLSProfile = "nil"
    /\ cleanupRegistered = FALSE
    /\ st = [p \in Polls |-> "NotStarted"]
    /\ err = [p \in Polls |-> "unset"]
    /\ elapsed = 0
    /\ checks = 0
    /\ obs = NoObs
    /\ published = NoObs
    /\ sawDegraded = FALSE
    /\ suite = NoSpecs

-----------------------------------------------------------------------------
(* A poll session: wait.PollUntilContextTimeout(ctx, interval, timeout,    *)
(* immediate, condition)                                                   *)

\* the call: a fresh session, its deadline context and its ticker
StartPoll(p) ==
    /\ pc' = p
    /\ st' = [st EXCEPT ![p] = "Waiting"]
    /\ elapsed' = 0
    /\ checks' = 0
    /\ obs' = NoObs
    /\ sawDegraded' = FALSE

\* the instant of the next check: at once when immediate, else at the next tick
NextCheck(p) ==
    IF checks = 0 /\ Immediate(p) THEN 0 ELSE elapsed + Interval(p)

\* mutant: a poll without deadline (wait.PollUntilContextCancel on this context)
CheckDueNoDeadline(p) == TRUE

\* mutant: the session gives up one interval before its deadline
CheckDueEarly(p) ==
    (checks = 0 /\ Immediate(p)) \/ NextCheck(p) + Interval(p) < Timeout(p)

\* the first check of an immediate session runs whatever the deadline; a later
\* one runs only when its tick comes before the deadline
CheckDue(p) ==
    (checks = 0 /\ Immediate(p)) \/ NextCheck(p) < Timeout(p)

\* the ClusterOperator statuses that can be there when the APIServer is written
PublishedStatuses == {o \in CoObservations : ~o.fetchErr}

\* what the Get of a check returns: while the operator has not published since
\* the Modern update, the status of that time or an error
GetResults(p) ==
    IF p \in {"progressing", "reconcile"} /\ published # NoObs
    THEN {published, CoFetchError}
    ELSE Observations(p)

\* Waiting -> Checking: the condition is called and issues its Get
Tick(p) ==
    /\ pc = p
    /\ st[p] = "Waiting"
    /\ CheckDue(p)
    /\ elapsed' = NextCheck(p)
    /\ checks' = checks + 1
    /\ \E o \in GetResults(p) : obs' = o
    /\ st' = [st EXCEPT ![p] = "Checking"]
    /\ UNCHANGED <<pc, verdict, failure, apiProfile, apiVersion, apiServer,
                   originalTLSProfile, cleanupRegistered, err, published,
                   sawDegraded, suite>>

\* Waiting -> TimedOut: the deadline context is done before the next tick
Expire(p) ==
    /\ pc = p
    /\ st[p] = "Waiting"
    /\ ~CheckDue(p)
    /\ elapsed' = Timeout(p)
    /\ st' = [st EXCEPT ![p] = "TimedOut"]
    /\ err' = [err EXCEPT ![p] = "DeadlineExceeded"]
    /\ UNCHANGED <<pc, verdict, failure, apiProfile, apiVersion, apiServer,
                   originalTLSProfile, cleanupRegistered, checks, obs, published,
                   sawDegraded, suite>>

\* the reconciliation predicate logs "Warning: operator is degraded"
DegradedWarning(p, o) ==
    p = "reconcile" /\ ~o.fetchErr /\ HasCondition(o, "Degraded", "True")

\* Checking -> Converged, Waiting or Errored: "err != nil || ok" ends the loop
Evaluate(p) ==
    /\ pc = p
    /\ st[p] = "Checking"
    /\ LET r == Predicate(p, obs, originalTLSProfile)
       IN  IF r.err # "nil"
           THEN /\ st' = [st EXCEPT ![p] = "Errored"]
                /\ err' = [err EXCEPT ![p] = r.err]
           ELSE IF r.ok
           THEN /\ st' = [st EXCEPT ![p] = "Converged"]
                /\ err' = [err EXCEPT ![p] = "nil"]
           ELSE /\ st' = [st EXCEPT ![p] = "Waiting"]
                /\ err' = err
    /\ sawDegraded' = (sawDegraded \/ DegradedWarning(p, obs))
    /\ UNCHANGED <<pc, verdict, failure, apiProfile, apiVersion, apiServer,
                   originalTLSProfile, cleanupRegistered, elapsed, checks, obs,
                   published, suite>>

-----------------------------------------------------------------------------
(* The scenario: testTLSSecurityProfilePropagation *)

\* the session is discarded and the scenario goes on at `next` without polling
LeavePoll(next) ==
    /\ pc' = next
    /\ elapsed' = 0
    /\ checks' = 0
    /\ obs' = NoObs
    /\ st' = st
    /\ sawDegraded' = FALSE

\* a failed assertion (o.Expect) ends the main flow; a registered cleanup runs
FailTo(reason) ==
    /\ verdict' = "failed"
    /\ failure' = reason

\* client.APIServers().Update: rejected on a stale resourceVersion, and it may
\* fail for any other reason
UpdateAccepted(ok) == ok /\ apiServer.version = apiVersion

\* framework.MustNewClientset and framework.MustEnsureClusterOperatorStatusIsSet
Setup ==
    /\ pc = "setup"
    /\ \E ok \in BOOLEAN :
          IF ok THEN /\ pc' = "getInitial"
                     /\ UNCHANGED <<verdict, failure>>
                ELSE /\ pc' = "done"
                     /\ FailTo("setup")
    /\ UNCHANGED <<apiProfile, apiVersion, apiServer, originalTLSProfile,
                   cleanupRegistered, st, err, elapsed, checks, obs, published,
                   sawDegraded, suite>>

\* Get the APIServer, save its TLS profile, set Modern on the local copy
GetInitial ==
    /\ pc = "getInitial"
    /\ \E ok \in BOOLEAN :
          IF ok THEN /\ originalTLSProfile' = apiProfile
                     /\ apiServer' = [profile |-> "Modern", version |-> apiVersion]
                     /\ pc' = "update"
                     /\ UNCHANGED <<verdict, failure>>
                ELSE /\ pc' = "done"
                     /\ FailTo("setup")
                     /\ UNCHANGED <<originalTLSProfile, apiServer>>
    /\ UNCHANGED <<apiProfile, apiVersion, cleanupRegistered, st, err, elapsed,
                   checks, obs, published, sawDegraded, suite>>

\* mutant: the cleanup is registered before the Update, so it runs when it fails
UpdateModernRegistersFirst ==
    /\ pc = "update"
    /\ cleanupRegistered' = TRUE
    /\ \E ok \in BOOLEAN :
          IF UpdateAccepted(ok)
          THEN /\ apiProfile' = apiServer.profile
               /\ apiVersion' = apiVersion + 1
               /\ StartPoll("progressing")
               /\ published' \in PublishedStatuses
               /\ UNCHANGED <<verdict, failure>>
          ELSE /\ FailTo("setup")
               /\ LeavePoll("cleanupGet")
               /\ UNCHANGED <<apiProfile, apiVersion, published>>
    /\ UNCHANGED <<apiServer, originalTLSProfile, err, suite>>

\* Update the APIServer to Modern, register the cleanup, start the first poll
UpdateModern ==
    /\ pc = "update"
    /\ \E ok \in BOOLEAN :
          IF UpdateAccepted(ok)
          THEN /\ apiProfile' = apiServer.profile
               /\ apiVersion' = apiVersion + 1
               /\ cleanupRegistered' = TRUE
               /\ StartPoll("progressing")
               /\ published' \in PublishedStatuses
               /\ UNCHANGED <<verdict, failure>>
          ELSE /\ pc' = "done"
               /\ FailTo("setup")
               /\ UNCHANGED <<apiProfile, apiVersion, cleanupRegistered, st,
                              elapsed, checks, obs, published, sawDegraded>>
    /\ UNCHANGED <<apiServer, originalTLSProfile, err, suite>>

\* mutant: the wait-for-progressing poll is run again after a timeout
ReturnProgressingRetries ==
    /\ pc = "progressing"
    /\ st["progressing"] \in Terminal
    /\ IF err["progressing"] = "nil"
       THEN StartPoll("reconcile")
       ELSE StartPoll("progressing")
    /\ UNCHANGED <<verdict, failure, apiProfile, apiVersion, apiServer,
                   originalTLSProfile, cleanupRegistered, err, published, suite>>

\* the wait-for-progressing poll returns: a timeout is logged as a warning
ReturnProgressing ==
    /\ pc = "progressing"
    /\ st["progressing"] \in Terminal
    /\ StartPoll("reconcile")
    /\ UNCHANGED <<verdict, failure, apiProfile, apiVersion, apiServer,
                   originalTLSProfile, cleanupRegistered, err, published, suite>>

\* mutant: a failed reconciliation ends the scenario without the cleanup
ReturnReconcileSkipsCleanup ==
    /\ pc = "reconcile"
    /\ st["reconcile"] \in Terminal
    /\ IF err["reconcile"] = "nil"
       THEN /\ StartPoll("observed")
            /\ UNCHANGED <<verdict, failure>>
       ELSE /\ FailTo("timeout")
            /\ LeavePoll("done")
    /\ published' = NoObs
    /\ UNCHANGED <<apiProfile, apiVersion, apiServer, originalTLSProfile,
                   cleanupRegistered, err, suite>>

\* mutant: a timeout of the reconciliation poll is logged and the flow goes on
ReturnReconcileContinues ==
    /\ pc = "reconcile"
    /\ st["reconcile"] \in Terminal
    /\ StartPoll("observed")
    /\ published' = NoObs
    /\ UNCHANGED <<verdict, failure, apiProfile, apiVersion, apiServer,
                   originalTLSProfile, cleanupRegistered, err, suite>>

\* the reconciliation poll returns: o.Expect(err).NotTo(o.HaveOccurred())
ReturnReconcile ==
    /\ pc = "reconcile"
    /\ st["reconcile"] \in Terminal
    /\ IF err["reconcile"] = "nil"
       THEN /\ StartPoll("observed")
            /\ UNCHANGED <<verdict, failure>>
       ELSE /\ FailTo("timeout")
            /\ LeavePoll("cleanupGet")
    /\ published' = NoObs
    /\ UNCHANGED <<apiProfile, apiVersion, apiServer, originalTLSProfile,
                   cleanupRegistered, err, suite>>

\* mutant: a timeout of the observed-config poll is logged, not asserted
ReturnObservedLogsOnly ==
    /\ pc = "observed"
    /\ st["observed"] \in Terminal
    /\ verdict' = "passed"
    /\ failure' = failure
    /\ LeavePoll("cleanupGet")
    /\ UNCHANGED <<apiProfile, apiVersion, apiServer, originalTLSProfile,
                   cleanupRegistered, err, published, suite>>

\* the observed-config poll returns: the final o.Expect, then the function ends
ReturnObserved ==
    /\ pc = "observed"
    /\ st["observed"] \in Terminal
    /\ IF err["observed"] = "nil"
       THEN /\ verdict' = "passed"
            /\ failure' = failure
       ELSE FailTo("timeout")
    /\ LeavePoll("cleanupGet")
    /\ UNCHANGED <<apiProfile, apiVersion, apiServer, originalTLSProfile,
                   cleanupRegistered, err, published, suite>>

\* mutant: the cleanup puts the saved profile on the copy fetched by the setup
CleanupGetReusesCopy ==
    /\ pc = "cleanupGet"
    /\ apiServer' = [apiServer EXCEPT !.profile = originalTLSProfile]
    /\ pc' = "cleanupUpdate"
    /\ UNCHANGED <<verdict, failure, apiProfile, apiVersion, originalTLSProfile,
                   cleanupRegistered, st, err, elapsed, checks, obs, published,
                   sawDegraded, suite>>

\* cleanup: Get the APIServer again and put the saved profile on the fresh copy
CleanupGet ==
    /\ pc = "cleanupGet"
    /\ \E ok \in BOOLEAN :
          IF ok THEN /\ apiServer' = [profile |-> originalTLSProfile,
                                      version |-> apiVersion]
                     /\ pc' = "cleanupUpdate"
                ELSE /\ pc' = "done"
                     /\ apiServer' = apiServer
    /\ UNCHANGED <<verdict, failure, apiProfile, apiVersion, originalTLSProfile,
                   cleanupRegistered, st, err, elapsed, checks, obs, published,
                   sawDegraded, suite>>

\* cleanup: Update the APIServer with the saved profile, start the cleanup polls
CleanupUpdate ==
    /\ pc = "cleanupUpdate"
    /\ \E ok \in BOOLEAN :
          IF UpdateAccepted(ok)
          THEN /\ apiProfile' = apiServer.profile
               /\ apiVersion' = apiVersion + 1
               /\ StartPoll("cleanupReconcile")
          ELSE /\ pc' = "done"
               /\ UNCHANGED <<apiProfile, apiVersion, st, elapsed, checks, obs,
                              sawDegraded>>
    /\ UNCHANGED <<verdict, failure, apiServer, originalTLSProfile,
                   cleanupRegistered, err, published, suite>>

\* mutant: the cleanup verifies the observed config whatever its first poll returned
ReturnCleanupReconcileContinues ==
    /\ pc = "cleanupReconcile"
    /\ st["cleanupReconcile"] \in Terminal
    /\ StartPoll("cleanupVerify")
    /\ UNCHANGED <<verdict, failure, apiProfile, apiVersion, apiServer,
                   originalTLSProfile, cleanupRegistered, err, published, suite>>

\* cleanup: the reconciliation poll returns; on an error it logs and returns
ReturnCleanupReconcile ==
    /\ pc = "cleanupReconcile"
    /\ st["cleanupReconcile"] \in Terminal
    /\ IF err["cleanupReconcile"] = "nil"
       THEN StartPoll("cleanupVerify")
       ELSE LeavePoll("done")
    /\ UNCHANGED <<verdict, failure, apiProfile, apiVersion, apiServer,
                   originalTLSProfile, cleanupRegistered, err, published, suite>>

\* mutant: the cleanup asserts on the result of its verification poll
ReturnCleanupVerifyAsserts ==
    /\ pc = "cleanupVerify"
    /\ st["cleanupVerify"] \in Terminal
    /\ IF err["cleanupVerify"] = "nil"
       THEN UNCHANGED <<verdict, failure>>
       ELSE FailTo("timeout")
    /\ LeavePoll("done")
    /\ UNCHANGED <<apiProfile, apiVersion, apiServer, originalTLSProfile,
                   cleanupRegistered, err, published, suite>>

\* cleanup: the verification poll returns; an error is logged
ReturnCleanupVerify ==
    /\ pc = "cleanupVerify"
    /\ st["cleanupVerify"] \in Terminal
    /\ LeavePoll("done")
    /\ UNCHANGED <<verdict, failure, apiProfile, apiVersion, apiServer,
                   originalTLSProfile, cleanupRegistered, err, published, suite>>

-----------------------------------------------------------------------------
(* The cluster: the operator under test *)

\* the operator publishes a ClusterOperator status after the Modern update:
\* from now on a Get can return any status
OperatorPublishes ==
    /\ pc \in {"progressing", "reconcile"}
    /\ published # NoObs
    /\ published' = NoObs
    /\ UNCHANGED <<pc, verdict, failure, apiProfile, apiVersion, apiServer,
                   originalTLSProfile, cleanupRegistered, st, err, elapsed,
                   checks, obs, sawDegraded, suite>>

-----------------------------------------------------------------------------
(* Specifications *)

PollStep == \E p \in Polls : Tick(p) \/ Expire(p) \/ Evaluate(p)

Next ==
    \/ Setup
    \/ GetInitial
    \/ UpdateModern
    \/ PollStep
    \/ ReturnProgressing
    \/ ReturnReconcile
    \/ ReturnObserved
    \/ CleanupGet
    \/ CleanupUpdate
    \/ ReturnCleanupReconcile
    \/ ReturnCleanupVerify
    \/ OperatorPublishes

Spec == Init /\ [][Next]_vars

\* the test process keeps running and its timers fire
FairSpec == Spec /\ WF_vars(Next)

-----------------------------------------------------------------------------

(* The scenario run as a spec of the serial suite, under its TestTimeout    *)

\* testTimeout of the serial suite, in seconds
TestTimeout == 30 * 60

\* the runner has started the scenario
TimedInit ==
    /\ pc = "setup"
    /\ verdict = "running"
    /\ failure = "none"
    /\ apiProfile \in InitialProfiles
    /\ apiVersion = 0
    /\ apiServer = NoCopy
    /\ originalTLSProfile = "nil"
    /\ cleanupRegistered = FALSE
    /\ st = [p \in Polls |-> "NotStarted"]
    /\ err = [p \in Polls |-> "unset"]
    /\ elapsed = 0
    /\ checks = 0
    /\ obs = NoObs
    /\ published = NoObs
    /\ sawDegraded = FALSE
    /\ suite = [inFlight |-> {TLSSpec}, finished |-> {}]

\* a run of the scenario as the spec in flight of the serial suite; what the
\* runner does to a spec that outlives TestTimeout is not followed
TimedSpec == TimedInit /\ [][Next]_vars

-----------------------------------------------------------------------------

(* The predicates alone: one check of every poll on every enumerated        *)
(* observation                                                             *)

PollOrder ==
    <<"progressing", "reconcile", "observed", "cleanupReconcile", "cleanupVerify">>

PollIndex(p) == CHOOSE i \in DOMAIN PollOrder : PollOrder[i] = p

\* the first check of poll p in a run whose earlier polls all converged
PredInit ==
    \E p \in Polls, original \in Profiles :
        /\ pc = p
        /\ verdict = IF p \in CleanupPolls THEN "passed" ELSE "running"
        /\ failure = "none"
        /\ apiProfile = IF p \in CleanupPolls THEN original ELSE "Modern"
        /\ apiVersion = IF p \in CleanupPolls THEN 2 ELSE 1
        /\ apiServer = [profile |-> apiProfile, version |-> apiVersion - 1]
        /\ originalTLSProfile = original
        /\ cleanupRegistered = TRUE
        /\ st = [q \in Polls |->
                    IF q = p THEN "Checking"
                    ELSE IF PollIndex(q) < PollIndex(p) THEN "Converged"
                    ELSE "NotStarted"]
        /\ err = [q \in Polls |->
                    IF PollIndex(q) < PollIndex(p) THEN "nil" ELSE "unset"]
        /\ elapsed = 0
        /\ checks = 1
        /\ obs \in AllObservations(p)
        /\ published = NoObs
        /\ sawDegraded = FALSE
        /\ suite = NoSpecs
    
PredNext == \E p \in Polls : Evaluate(p)

PredSpec == PredInit /\ [][PredNext]_vars

-----------------------------------------------------------------------------
(* Properties of the poll sessions *)

\* the session of the poll the scenario is in
Active == pc \in Polls

\* the result of the last check of the current session
LastResult == Predicate(pc, obs, originalTLSProfile)

\* C1: every poll session the scenario starts ends Converged or TimedOut,
\* whatever the cluster returns, and never runs past its deadline.
C1_PollSessionsTerminate ==
    /\ [](Active => elapsed <= Timeout(pc))
    /\ <>[](\A p \in Polls : st[p] \in {"NotStarted", "Converged", "TimedOut"})

\* the last cleanup poll timed out on fetch errors after the first poll timed out too
C1_Witness ==
    /\ pc = "cleanupVerify"
    /\ st["cleanupVerify"] = "TimedOut"
    /\ st["progressing"] = "TimedOut"
    /\ obs.fetchErr
    /\ elapsed = Timeout("cleanupVerify")

\* C2: with 0 < interval < timeout, a session whose checks are all false ends
\* TimedOut with DeadlineExceeded, never Converged, no later than timeout + interval.
C2_AlwaysFalseTimesOut ==
    Active =>
        /\ Interval(pc) > 0
        /\ Timeout(pc) > Interval(pc)
        /\ st[pc] = "Converged" => LastResult.ok
        /\ (st[pc] \in Terminal /\ checks > 0 /\ ~LastResult.ok) =>
                st[pc] = "TimedOut"
        /\ st[pc] = "TimedOut" =>
                /\ err[pc] = "DeadlineExceeded"
                /\ elapsed <= Timeout(pc) + Interval(pc)

\* the reconciliation poll checked 90 times, every 10 s, and timed out at 900 s
C2_Witness ==
    /\ pc = "reconcile"
    /\ st["reconcile"] = "TimedOut"
    /\ checks = 90
    /\ elapsed = 900
    /\ ~LastResult.ok

\* C3: the checks happen at 0, interval, 2*interval, ... before the deadline; the
\* session converges on the first check that returns true, at (checks-1)*interval,
\* polls on only after a false check, and times out only when no check is left.
C3_ConvergesAtFirstTrueCheck ==
    (Active /\ checks > 0) =>
        /\ st[pc] \in {"Checking", "Waiting", "Converged"} =>
                elapsed = (checks - 1) * Interval(pc)
        /\ st[pc] = "Waiting" => ~LastResult.ok
        /\ st[pc] = "Converged" =>
                /\ LastResult.ok
                /\ err[pc] = "nil"
                /\ (checks - 1) * Interval(pc) < Timeout(pc)
        /\ st[pc] = "TimedOut" => checks * Interval(pc) >= Timeout(pc)

\* the observed-config poll saw three false checks and converged on the fourth
C3_Witness ==
    /\ pc = "observed"
    /\ st["observed"] = "Converged"
    /\ checks = 4
    /\ elapsed = 15

\* C4: a failed Get makes every predicate return (false, nil); it ends no session,
\* no session returns the fetch error, and a session that ends after a failed Get
\* ends TimedOut at its deadline with DeadlineExceeded.
C4_FetchErrorNeverEndsSession ==
    /\ \A p \in Polls :
          /\ err[p] \in {"unset", "nil", "DeadlineExceeded"}
          /\ st[p] # "Errored"
    /\ (Active /\ checks > 0 /\ obs.fetchErr) =>
          /\ LastResult = [ok |-> FALSE, err |-> "nil"]
          /\ st[pc] \in {"Checking", "Waiting", "TimedOut"}
          /\ st[pc] = "TimedOut" =>
                /\ elapsed >= Timeout(pc)
                /\ err[pc] = "DeadlineExceeded"

\* the wait-for-progressing poll timed out at 300 s and its last Get had failed
C4_Witness ==
    /\ pc = "progressing"
    /\ st["progressing"] = "TimedOut"
    /\ obs.fetchErr
    /\ checks = 60
    /\ elapsed = 300

\* C5: every poll is immediate: a session starts fresh, its first check is at 0 s
\* and converges there exactly when the predicate holds of what it read, and no
\* step of a poll writes to the cluster.
C5_ImmediateFirstCheck ==
    /\ [](Active =>
            /\ Immediate(pc)
            /\ checks = 0 => (st[pc] = "Waiting" /\ elapsed = 0 /\ obs = NoObs)
            /\ checks = 1 => elapsed = 0
            /\ (checks = 1 /\ st[pc] \in {"Waiting", "Converged"}) =>
                    (st[pc] = "Converged" <=> LastResult.ok))
    /\ [][Active => (apiProfile' = apiProfile /\ apiVersion' = apiVersion)]_vars

\* the reconciliation poll converged on its first check, before any interval
C5_Witness ==
    /\ pc = "reconcile"
    /\ st["reconcile"] = "Converged"
    /\ checks = 1
    /\ elapsed = 0

AllowedTransitions ==
    {<<"NotStarted", "Waiting">>, <<"Waiting", "Checking">>,
     <<"Checking", "Converged">>, <<"Checking", "Waiting">>,
     <<"Checking", "TimedOut">>, <<"Waiting", "TimedOut">>}

\* C6: a session moves only along Waiting -> Checking, Checking -> Converged on a
\* true check, Checking -> Waiting on a false check before the deadline, and
\* Checking or Waiting -> TimedOut at the deadline; Converged and TimedOut are
\* never left, the returned error is set once, and no check follows them.
C6_SessionStateMachine ==
    [][/\ \A p \in Polls :
            /\ st'[p] # st[p] => <<st[p], st'[p]>> \in AllowedTransitions
            /\ st[p] \in {"Converged", "TimedOut"} =>
                    (st'[p] = st[p] /\ err'[p] = err[p])
            /\ (st[p] = "Checking" /\ st'[p] = "Converged") =>
                    Predicate(p, obs, originalTLSProfile).ok
            /\ (st[p] = "Checking" /\ st'[p] = "Waiting") =>
                    (~Predicate(p, obs, originalTLSProfile).ok /\ elapsed < Timeout(p))
            /\ (st[p] # "TimedOut" /\ st'[p] = "TimedOut") =>
                    (elapsed' >= Timeout(p) /\ err'[p] = "DeadlineExceeded")
       /\ (Active /\ st[pc] \in Terminal) => checks' <= checks]_vars

\* both outcomes were produced in one run and are still in place at its end
C6_Witness ==
    /\ pc = "done"
    /\ st["progressing"] = "TimedOut"
    /\ st["reconcile"] = "Converged"
    /\ st["observed"] = "TimedOut"
    /\ st["cleanupReconcile"] = "Converged"

-----------------------------------------------------------------------------
(* Properties of the predicates *)

\* the observation holds a string minTLSVersion under servingInfo
ReportsVersion(o) ==
    /\ ~o.fetchErr
    /\ o.raw = "object"
    /\ o.servingInfo = "map"
    /\ o.minTLSVersion.k = "string"

\* the observation holds servingInfo.cipherSuites, a list of strings with `name` in it
ListsCipher(o, name) ==
    /\ ~o.fetchErr
    /\ o.raw = "object"
    /\ o.servingInfo = "map"
    /\ o.cipherSuites.k = "slice"
    /\ \E i \in DOMAIN o.cipherSuites.v : o.cipherSuites.v[i] = name

\* the Modern profile as the observed configuration shows it
ModernObserved(o) ==
    /\ ReportsVersion(o)
    /\ o.minTLSVersion.v = "VersionTLS13"
    /\ ListsCipher(o, "TLS_AES_128_GCM_SHA256")
    /\ ListsCipher(o, "TLS_AES_256_GCM_SHA384")
    /\ ListsCipher(o, "TLS_CHACHA20_POLY1305_SHA256")

\* the text holds the quoted name of every TLS key that servingInfo decodes to:
\* the keys are written as they are, as a JSON encoder writes them, not with
\* an escape
KeysUnescaped(o) ==
    (~o.fetchErr /\ o.raw = "object" /\ o.servingInfo = "map") =>
        /\ o.minTLSVersion.k # "absent" => o.names.minTLSVersion
        /\ o.cipherSuites.k # "absent" => o.names.cipherSuites

\* the text holds both quoted names
HoldsBothNames(o) == o.names.minTLSVersion /\ o.names.cipherSuites

\* C7: on an observed configuration as a JSON encoder writes it (keys
\* unescaped) the observed-config predicate returns converged exactly when
\* servingInfo.minTLSVersion is "VersionTLS13" and servingInfo.cipherSuites holds
\* the three TLS 1.3 suites; further suites in the list do not matter.  On any
\* text at all it returns converged exactly when, besides, the text holds both
\* quoted names.
C7_ObservedConfigSubsetCheck ==
    (pc = "observed" /\ checks > 0) =>
        /\ KeysUnescaped(obs) =>
              /\ st["observed"] = "Converged" => ModernObserved(obs)
              /\ st["observed"] = "Waiting" => ~ModernObserved(obs)
        /\ st["observed"] = "Converged" =>
              (ModernObserved(obs) /\ HoldsBothNames(obs))
        /\ st["observed"] = "Waiting" =>
              ~(ModernObserved(obs) /\ HoldsBothNames(obs))

\* converged on a list of four suites that starts with a suite outside the three
C7_Witness ==
    /\ pc = "observed"
    /\ st["observed"] = "Converged"
    /\ Len(obs.cipherSuites.v) = 4
    /\ obs.cipherSuites.v[1] = "TLS_ECDHE_RSA_WITH_AES_128_GCM_SHA256"

\* the observation parsed, servingInfo is a map, null or not there, and
\* minTLSVersion is a string or not there
WellTyped(o) ==
    /\ ~o.fetchErr
    /\ o.raw = "object"
    /\ o.servingInfo # "other"
    /\ o.minTLSVersion.k # "other"

\* the cleanup verification predicate has returned for the observation in obs
CleanupVerifyReturned ==
    /\ pc = "cleanupVerify"
    /\ checks > 0
    /\ st["cleanupVerify"] \in {"Waiting", "Converged"}

\* C8 as claimed: whatever the saved profile, converged exactly when
\* "VersionTLS13" is no longer reported (another version, or none at all).
C8_AsClaimed ==
    (CleanupVerifyReturned /\ WellTyped(obs)) =>
        (st["cleanupVerify"] = "Converged" <=>
            ~(ReportsVersion(obs) /\ obs.minTLSVersion.v = "VersionTLS13"))

\* what the cleanup verification accepts, by the saved profile
Restored(o, original) ==
    /\ WellTyped(o)
    /\ IF original = "nil"
       THEN ~ReportsVersion(o) \/ o.minTLSVersion.v \in {"", "VersionTLS12"}
       ELSE ReportsVersion(o) /\ o.minTLSVersion.v # "VersionTLS13"

\* C8 amended: never converged while "VersionTLS13" is reported; with a nil saved
\* profile converged exactly when minTLSVersion is "VersionTLS12", empty or not
\* reported; with a saved profile converged exactly when minTLSVersion is reported
\* and is not "VersionTLS13"; a failed Get, an unparsable blob, a servingInfo that
\* is neither a map nor null, or a minTLSVersion that is not a string is not
\* converged.
C8_CleanupVerifyByOriginal ==
    CleanupVerifyReturned =>
        /\ st["cleanupVerify"] = "Converged" <=> Restored(obs, originalTLSProfile)
        /\ (ReportsVersion(obs) /\ obs.minTLSVersion.v = "VersionTLS13") =>
                st["cleanupVerify"] = "Waiting"

\* a profile had been saved and the observed config reports no minTLSVersion:
\* the predicate returned not converged
C8_Witness ==
    /\ CleanupVerifyReturned
    /\ originalTLSProfile = "Intermediate"
    /\ WellTyped(obs)
    /\ obs.servingInfo = "map"
    /\ obs.minTLSVersion.k = "absent"
    /\ st["cleanupVerify"] = "Waiting"

-----------------------------------------------------------------------------
(* Properties of the scenario *)

CleanupSteps == {"cleanupGet", "cleanupUpdate", "cleanupReconcile", "cleanupVerify"}

\* C9: the cleanup runs with the verdict decided, and none of its steps (Get,
\* Update, the two polls and their results) changes the verdict.
C9_CleanupKeepsVerdict ==
    /\ [](pc \in CleanupSteps => verdict \in {"passed", "failed"})
    /\ [][(pc \in CleanupSteps) => (verdict' = verdict /\ failure' = failure)]_vars

\* the scenario passed and its cleanup verification poll timed out
C9_Witness ==
    /\ pc = "done"
    /\ verdict = "passed"
    /\ st["cleanupReconcile"] = "Converged"
    /\ st["cleanupVerify"] = "TimedOut"

\* C10 as claimed: a scenario in which a main-flow poll timed out has failed.
C10_AsClaimed ==
    pc = "done" =>
        \A p \in MainPolls : st[p] = "TimedOut" => verdict = "failed"

\* C10 amended: a timeout of the reconciliation poll or of the observed-config
\* poll fails the scenario; a timeout of the wait-for-progressing poll does not;
\* the scenario fails only on a setup error or on one of those two timeouts.
C10_TimeoutsFailExceptProgressing ==
    /\ \A p \in {"reconcile", "observed"} :
          (st[p] = "TimedOut" /\ pc # p) =>
                (verdict = "failed" /\ failure = "timeout")
    /\ verdict = "failed" <=> failure \in {"setup", "timeout"}
    /\ failure = "timeout" =>
          (st["reconcile"] = "TimedOut" \/ st["observed"] = "TimedOut")
    /\ failure = "setup" =>
          (pc = "done" /\ \A p \in Polls : st[p] = "NotStarted")
    /\ (st["reconcile"] = "Converged" /\ st["observed"] = "Converged"
            /\ pc \notin MainPolls) => verdict = "passed"

\* the wait-for-progressing poll timed out and the scenario passed
C10_Witness ==
    /\ pc = "done"
    /\ st["progressing"] = "TimedOut"
    /\ verdict = "passed"

-----------------------------------------------------------------------------
(* C11: a setup error ends the scenario at once *)

SetupSteps == {"setup", "getInitial", "update"}

\* C11: when the initial Get or the Update to Modern fails, the scenario ends
\* failed at that step: no poll session was started, the restore cleanup is
\* neither registered nor run, and the APIServer has not been written.
C11_SetupErrorAborts ==
    /\ [](failure = "setup" =>
            /\ pc = "done"
            /\ verdict = "failed"
            /\ \A p \in Polls : st[p] = "NotStarted" /\ err[p] = "unset"
            /\ checks = 0
            /\ ~cleanupRegistered
            /\ apiVersion = 0
            /\ apiProfile \in InitialProfiles)
    /\ [][(failure' = "setup" /\ failure # "setup") =>
            /\ pc \in SetupSteps
            /\ pc' = "done"
            /\ apiProfile' = apiProfile
            /\ apiVersion' = apiVersion]_vars

\* the Update to Modern failed: the local copy carries Modern, the cluster does not
C11_Witness ==
    /\ failure = "setup"
    /\ pc = "done"
    /\ apiServer.profile = "Modern"
    /\ apiProfile # "Modern"

-----------------------------------------------------------------------------
(* C12: the predicates on incomplete observations *)

\* the predicate of the poll the scenario is in has returned for obs
PredicateReturned ==
    /\ pc \in Polls
    /\ checks > 0
    /\ st[pc] \in {"Waiting", "Converged", "Errored"}
    /\ ~obs.fetchErr

CondTypesOf(o) == {o.conditions[i].type : i \in DOMAIN o.conditions}

\* the status lacks a condition the predicate of poll p waits for; the empty
\* list lacks them all
LacksCondition(p, o) ==
    IF p = "progressing" THEN "Progressing" \notin CondTypesOf(o)
    ELSE ~({"Available", "Progressing"} \subseteq CondTypesOf(o))

\* servingInfo is not there or null, or the field of it is not there
FieldAbsent(o, value) ==
    o.raw = "object" /\ (o.servingInfo \in {"absent", "null"} \/
                         (o.servingInfo = "map" /\ value.k = "absent"))

\* the field is there and empty
FieldEmpty(o, value, zero) ==
    /\ o.raw = "object"
    /\ o.servingInfo = "map"
    /\ value.k \notin {"absent", "other"}
    /\ value.v = zero

\* the blob is not JSON, or servingInfo or the field is of another type
Malformed(o, value) ==
    o.raw = "invalid" \/ o.servingInfo = "other" \/
    (o.servingInfo = "map" /\ value.k = "other")

\* an observation that misses something the predicate of poll p reads
Incomplete(p, o) ==
    CASE p \in CoPolls -> LacksCondition(p, o)
      [] p = "observed" ->
            \/ o.raw = "invalid"
            \/ FieldAbsent(o, o.minTLSVersion) \/ FieldEmpty(o, o.minTLSVersion, "")
            \/ FieldAbsent(o, o.cipherSuites) \/ FieldEmpty(o, o.cipherSuites, <<>>)
      [] p = "cleanupVerify" ->
            \/ o.raw = "invalid"
            \/ FieldAbsent(o, o.minTLSVersion) \/ FieldEmpty(o, o.minTLSVersion, "")

\* C12 as claimed: every predicate returns a nil error, and not converged
\* whenever something it reads is missing.
C12_AsClaimed ==
    PredicateReturned =>
        /\ st[pc] # "Errored"
        /\ Incomplete(pc, obs) => st[pc] = "Waiting"

\* C12: every predicate returns a nil error on every observation.  The three
\* ClusterOperator predicates and the observed-config predicate return not
\* converged when something they read is missing, empty or malformed.  The
\* cleanup verification returns not converged on a malformed blob or field;
\* when minTLSVersion is missing (or servingInfo is missing or null) it returns
\* converged exactly if the saved profile was nil, and on an empty minTLSVersion
\* converged.
C12_PredicatesTolerateIncomplete ==
    PredicateReturned =>
        /\ st[pc] # "Errored"
        /\ (pc \in CoPolls /\ LacksCondition(pc, obs)) => st[pc] = "Waiting"
        /\ (pc = "observed" /\ (Incomplete(pc, obs)
                                \/ Malformed(obs, obs.minTLSVersion)
                                \/ Malformed(obs, obs.cipherSuites)))
              => st[pc] = "Waiting"
        /\ (pc = "cleanupVerify" /\ Malformed(obs, obs.minTLSVersion))
              => st[pc] = "Waiting"
        /\ (pc = "cleanupVerify" /\ FieldAbsent(obs, obs.minTLSVersion))
              => (st[pc] = "Converged" <=> originalTLSProfile = "nil")
        /\ (pc = "cleanupVerify" /\ FieldEmpty(obs, obs.minTLSVersion, ""))
              => st[pc] = "Converged"

\* no servingInfo at all, no profile saved: the cleanup verification converged
C12_Witness ==
    /\ PredicateReturned
    /\ pc = "cleanupVerify"
    /\ originalTLSProfile = "nil"
    /\ obs.raw = "object"
    /\ obs.servingInfo = "absent"
    /\ st[pc] = "Converged"

-----------------------------------------------------------------------------
(* C13: when the reconciliation predicate returns converged *)

\* the conditions of a status, as a set
CondsOf(o) == {o.conditions[i] : i \in DOMAIN o.conditions}

Cond(type, status) == [type |-> type, status |-> status]

\* C13: the reconciliation predicate returns converged exactly when the status
\* contains Available=True and Progressing=False and does not contain
\* Degraded=True; a status without an Available or without a Progressing
\* condition, the empty one included, is never converged.
C13_ReconcileConvergedExactly ==
    (PredicateReturned /\ pc = "reconcile") =>
        /\ st["reconcile"] \in {"Waiting", "Converged"}
        /\ st["reconcile"] = "Converged" <=>
              /\ Cond("Available", "True") \in CondsOf(obs)
              /\ Cond("Progressing", "False") \in CondsOf(obs)
              /\ Cond("Degraded", "True") \notin CondsOf(obs)
        /\ "Available" \notin CondTypesOf(obs) => st["reconcile"] = "Waiting"
        /\ "Progressing" \notin CondTypesOf(obs) => st["reconcile"] = "Waiting"
        /\ Len(obs.conditions) < 2 => st["reconcile"] = "Waiting"

\* converged on a status that lists all three conditions
C13_Witness ==
    /\ PredicateReturned
    /\ pc = "reconcile"
    /\ CondTypesOf(obs) = CondTypes
    /\ st["reconcile"] = "Converged"

-----------------------------------------------------------------------------
(* C14: a degraded operator does not end the reconciliation poll *)

\* the current check of the reconciliation poll got a status with Degraded=True
DegradedChecked ==
    /\ pc = "reconcile"
    /\ checks > 0
    /\ ~obs.fetchErr
    /\ Cond("Degraded", "True") \in CondsOf(obs)

\* C14: a check of the reconciliation poll that sees Degraded=True counts as
\* not converged, whatever Available and Progressing say, and never ends the
\* session with an error: the session goes on polling, may converge at a later
\* check, and ends TimedOut only at its deadline.
C14_DegradedNeverAborts ==
    /\ [](pc = "reconcile" =>
            /\ st["reconcile"] # "Errored"
            /\ DegradedChecked => st["reconcile"] # "Converged"
            /\ sawDegraded => checks > 0
            /\ st["reconcile"] = "TimedOut" =>
                  elapsed = Timeout("reconcile") /\
                  err["reconcile"] = "DeadlineExceeded")
    /\ [][(DegradedChecked /\ st["reconcile"] = "Checking"
           /\ st'["reconcile"] # "Checking") =>
            /\ st'["reconcile"] = "Waiting"
            /\ sawDegraded'
            /\ pc' = pc /\ err' = err /\ verdict' = verdict]_vars
    /\ [][(pc = "reconcile" /\ sawDegraded /\ st["reconcile"] = "Waiting"
           /\ st'["reconcile"] # "Waiting") =>
            IF NextCheck("reconcile") < Timeout("reconcile")
            THEN st'["reconcile"] = "Checking" /\ elapsed' = NextCheck("reconcile")
            ELSE st'["reconcile"] = "TimedOut"]_vars

\* the reconciliation poll converged after a check that saw Degraded=True
C14_Witness ==
    /\ pc = "reconcile"
    /\ sawDegraded
    /\ st["reconcile"] = "Converged"

-----------------------------------------------------------------------------
(* C15: what the reconciliation poll converges on *)

\* the reconciliation poll has reported Converged and has not returned yet
ReconcileConverged == pc = "reconcile" /\ st["reconcile"] = "Converged"

\* the operator has published a status since the Modern update
OperatorReacted == published = NoObs

\* C15 as claimed: whenever the reconciliation poll reports Converged, the
\* operator has reacted to the Modern update, in every interleaving.
C15_AsClaimed == ReconcileConverged => OperatorReacted

\* C15: when the reconciliation poll reports Converged after the
\* wait-for-progressing poll reported Converged, the status it converged on
\* was published after the Modern update.  It can converge on the status of
\* before the update only when the wait-for-progressing poll timed out.
C15_ConvergedAfterProgressingIsFresh ==
    /\ (ReconcileConverged /\ st["progressing"] = "Converged") => OperatorReacted
    /\ (ReconcileConverged /\ ~OperatorReacted) =>
          /\ st["progressing"] = "TimedOut"
          /\ obs = published

\* both polls converged, the second on a status published after the update
C15_Witness ==
    /\ ReconcileConverged
    /\ st["progressing"] = "Converged"
    /\ OperatorReacted
    /\ Cond("Progressing", "False") \in CondsOf(obs)

-----------------------------------------------------------------------------
(* C17: the profile of the cluster after a run *)

\* the restore Update of the cleanup was accepted
RestoreWritten == st["cleanupReconcile"] # "NotStarted"

\* C17: in a run whose Gets and Updates succeed, with no other writer, the TLS
\* profile of the APIServer after the cleanup is the one of before the run
\* (none stays none), whatever the verdict: the profile saved by the setup is
\* the one of before the run and is not changed afterwards, the cluster carries
\* Modern from the setup Update to the restore Update, and the restore writes
\* the saved profile onto a copy fetched by the cleanup itself.
C17_RestoreRoundTrip ==
    /\ [](pc = "update" =>
            apiProfile = originalTLSProfile /\ apiVersion = 0)
    /\ [][(pc = "getInitial" /\ pc' = "update") =>
            originalTLSProfile' = apiProfile /\ apiProfile' = apiProfile]_vars
    /\ [][(pc \notin {"setup", "getInitial"}) =>
            originalTLSProfile' = originalTLSProfile]_vars
    /\ []((cleanupRegistered /\ ~RestoreWritten) =>
            apiProfile = "Modern" /\ apiVersion = 1)
    /\ [](pc = "cleanupUpdate" =>
            apiServer = [profile |-> originalTLSProfile, version |-> apiVersion])
    /\ [](RestoreWritten =>
            apiProfile = originalTLSProfile /\ apiVersion = 2)
    /\ []((pc = "done" /\ RestoreWritten) => apiProfile \in InitialProfiles)

\* a failed run that started from Intermediate has put Intermediate back
C17_Witness ==
    /\ pc = "done"
    /\ verdict = "failed"
    /\ RestoreWritten
    /\ originalTLSProfile = "Intermediate"
    /\ apiProfile = "Intermediate"

-----------------------------------------------------------------------------
(* C18: the restore is always attempted *)

\* the cleanup has issued its Get
CleanupGetIssued == pc \in {"cleanupUpdate", "cleanupReconcile", "cleanupVerify", "done"}

\* C18: once the Update to Modern has succeeded the restore is always
\* attempted.  The cleanup is registered before the first poll; every way out
\* of the main flow enters the cleanup, which issues its Get and, on the copy
\* it got, the Update that carries the saved profile; the scenario ends from
\* the cleanup only, and the cleanup Get is eventually issued.
C18_RestoreAlwaysAttempted ==
    /\ [](apiVersion >= 1 => cleanupRegistered)
    /\ []((\E p \in Polls : st[p] # "NotStarted") => cleanupRegistered)
    /\ [][(pc \in MainPolls /\ pc' \notin MainPolls) => pc' = "cleanupGet"]_vars
    /\ [][(pc = "cleanupGet" /\ pc' # "cleanupGet") =>
            \/ pc' = "done"
            \/ /\ pc' = "cleanupUpdate"
               /\ apiServer'.profile = originalTLSProfile]_vars
    /\ [][(pc = "cleanupUpdate" /\ apiVersion' # apiVersion) =>
            apiProfile' = originalTLSProfile]_vars
    /\ [][(cleanupRegistered /\ pc # "done" /\ pc' = "done") =>
            pc \in CleanupSteps]_vars
    /\ <>[](cleanupRegistered => CleanupGetIssued)

\* after a failed reconciliation the cleanup is about to write the saved profile
C18_Witness ==
    /\ pc = "cleanupUpdate"
    /\ failure = "timeout"
    /\ st["observed"] = "NotStarted"
    /\ apiServer.profile = originalTLSProfile
    /\ apiProfile = "Modern"

-----------------------------------------------------------------------------
(* C19: the order of the main flow and its verdict *)

\* the main flow is over after a successful setup
MainFlowOver == cleanupRegistered /\ pc \notin MainPolls

\* C19: the main flow runs the wait-for-progressing, the reconciliation and
\* the observed-config poll in this order, each started only after the one
\* before reached a terminal state, the third only if the second converged.
\* After a successful setup the scenario passes exactly when the second and
\* the third poll both converged, whatever the outcome of the first.
C19_MainFlowOrderAndVerdict ==
    /\ [](pc = "progressing" =>
            st["reconcile"] = "NotStarted" /\ st["observed"] = "NotStarted")
    /\ [](pc = "reconcile" => st["observed"] = "NotStarted")
    /\ [](st["reconcile"] # "NotStarted" =>
            st["progressing"] \in {"Converged", "TimedOut"})
    /\ [](st["observed"] # "NotStarted" => st["reconcile"] = "Converged")
    /\ [][(pc \in MainPolls /\ pc' \in MainPolls /\ pc' # pc) =>
            /\ st[pc] \in Terminal
            /\ PollIndex(pc') = PollIndex(pc) + 1
            /\ st'[pc'] = "Waiting"]_vars
    /\ [](MainFlowOver =>
            (verdict = "passed" <=>
                st["reconcile"] = "Converged" /\ st["observed"] = "Converged"))
    /\ [](~MainFlowOver => verdict # "passed")

\* a run passed and restored although the wait-for-progressing poll timed out
C19_Witness ==
    /\ pc = "done"
    /\ verdict = "passed"
    /\ st["progressing"] = "TimedOut"
    /\ st["reconcile"] = "Converged"
    /\ st["observed"] = "Converged"
    /\ RestoreWritten

-----------------------------------------------------------------------------
(* C20: the cleanup stops at its first failure *)

\* C20: when the cleanup Get fails no Update is issued; when the restore
\* Update fails no cleanup poll is started; the cleanup verification poll is
\* started only if the cleanup reconciliation poll converged.  After the step
\* that failed the cleanup does nothing more.
C20_CleanupStopsAtFirstFailure ==
    /\ [](st["cleanupReconcile"] # "NotStarted" => apiVersion = 2)
    /\ [](st["cleanupVerify"] # "NotStarted" =>
            st["cleanupReconcile"] = "Converged")
    /\ [][(pc = "cleanupGet" /\ pc' # "cleanupUpdate") =>
            /\ pc' = "done"
            /\ UNCHANGED <<apiProfile, apiVersion, apiServer, st>>]_vars
    /\ [][(pc = "cleanupUpdate" /\ pc' # "cleanupReconcile") =>
            /\ pc' = "done"
            /\ UNCHANGED <<apiProfile, apiVersion, st>>]_vars
    /\ [][(pc = "cleanupUpdate" /\ pc' = "cleanupReconcile") =>
            apiVersion' = apiVersion + 1]_vars
    /\ [][(pc = "cleanupReconcile" /\ pc' # "cleanupReconcile") =>
            IF st["cleanupReconcile"] = "Converged"
            THEN pc' = "cleanupVerify"
            ELSE pc' = "done" /\ st' = st]_vars
    /\ [][pc # "done"]_vars

\* the cleanup reconciliation timed out and the verification was never started
C20_Witness ==
    /\ pc = "done"
    /\ st["cleanupReconcile"] = "TimedOut"
    /\ st["cleanupVerify"] = "NotStarted"

-----------------------------------------------------------------------------
(* C21: the deadlines of a run against the test timeout of the suite *)

\* the poll sessions the run has executed or is executing
Executed == {p \in Polls : st[p] # "NotStarted"}

RECURSIVE SumOfTimeouts(_)
SumOfTimeouts(ps) ==
    IF ps = {} THEN 0
    ELSE LET p == CHOOSE q \in ps : TRUE
         IN  Timeout(p) + SumOfTimeouts(ps \ {p})

\* the sum of the deadlines of the poll sessions of the run, in seconds
DeadlineSum == SumOfTimeouts(Executed)

\* C21 as claimed: the sum of the deadlines of the poll sessions a run executes,
\* cleanup included, does not exceed the test timeout of the serial suite.
C21_AsClaimed == TLSSpec \in suite.inFlight => DeadlineSum <= TestTimeout

====
